---- MODULE Spec2Model ----
(***************************************************************************)
(* State-machine model of five code paths of the repository:               *)
(*   - chrome.webstorePrivate beginInstallWithManifest3 / completeInstall  *)
(*     and the process-wide PendingApprovals list,                         *)
(*   - chrome.tabCapture capture / captureOffscreenTab,                    *)
(*   - TabCaptureCaptureOffscreenTabFunction::DetermineInitialSize,        *)
(*   - the signed-in-devices id mapping helper,                            *)
(*   - PlatformNotificationServiceImpl persistent notification operations. *)
(* Each code path has its own specification over its own variables; the    *)
(* variables of the other code paths stay at their initial values.         *)
(***************************************************************************)
EXTENDS Integers, Sequences, FiniteSets, TLC

VARIABLES
  approvals,    \* g_pending_approvals.approvals_ : sequence of Approval
  funcs,        \* the webstorePrivate extension function objects created so far
  installers,   \* the WebstoreInstaller objects started so far
  size_options, \* the CaptureOptions handed to DetermineInitialSize
  size_result,  \* <<>> before the call, <<the gfx::Size returned>> after it
  switch_value,   \* the value of the --whitelisted-extension-id switch
  registry,       \* TabCaptureRegistry: the set of capture requests
  offscreen_tabs, \* OffscreenTabsOwner of each extension: how many tabs it runs
  call,           \* the last tabCapture function run: arguments and outcome
  devices,        \* the DeviceInfo list: a sequence of [guid, public_id]
  dictionary,     \* the id mapping dictionary: public id -> GUID
  mapping_calls,  \* number of CreateMappingForUnmappedDevices calls made
  pending_loads,  \* CreateProfileAsync calls whose bound callback is still due
  task_queues,    \* the task queue of each BrowserThread
  notification_data, \* ids with data in the notification database
  trace,          \* what ran, in order, and on which thread
  operations      \* number of ProcessPersistentNotificationOperation calls made

wsVars == <<approvals, funcs, installers>>
szVars == <<size_options, size_result>>
tcVars == <<switch_value, registry, offscreen_tabs, call>>
dvVars == <<devices, dictionary, mapping_calls>>

ntVars == <<pending_loads, task_queues, notification_data, trace, operations>>

vars == <<wsVars, szVars, tcVars, dvVars, ntVars>>

\* The variables outside each code path.
notWs == <<szVars, tcVars, dvVars, ntVars>>
notSz == <<wsVars, tcVars, dvVars, ntVars>>
notTc == <<wsVars, szVars, dvVars, ntVars>>
notDv == <<wsVars, szVars, tcVars, ntVars>>
notNt == <<wsVars, szVars, tcVars, dvVars>>

----------------------------------------------------------------------------
(* Bounds *)

\* Number of webstorePrivate function calls in one behaviour.
MaxFunctions == 2

\* Number of off-screen tabs an extension may run at a time.
MaxOffscreenTabs == 1

\* Length of the DeviceInfo list.
MaxDevices == 2

\* The initial id mapping has at most MaxMapped entries, with public ids
\* among the decimal strings of 0..MaxKey.
MaxMapped == 6
MaxKey == 9

\* Number of CreateMappingForUnmappedDevices calls in one behaviour.
MaxMappingCalls == 2

\* Number of ProcessPersistentNotificationOperation calls, and of closes
\* reported by a notification delegate, in one behaviour.
MaxOperations == 1
MaxCloses == 1

----------------------------------------------------------------------------
(* chrome.webstorePrivate : collaborators *)

\* P is a regular profile, P_otr its off-the-record profile, Guest the
\* profile of a guest session (a different profile from P).
Profiles == {"P", "P_otr", "Guest"}

GetOriginalProfile(p) == IF p = "P_otr" THEN "P" ELSE p

\* profile->IsSameProfile(other): the same profile or its off-the-record /
\* original counterpart.
IsSameProfile(p, q) == GetOriginalProfile(p) = GetOriginalProfile(q)

IsOffTheRecord(p) == p = "P_otr"

IsGuestSession(p) == p = "Guest"

\* Extension ids the web store page may pass; "bad" is not a well formed id.
ExtensionIds == {"x", "y", "bad"}

IdIsValid(id) == id \in {"x", "y"}

\* Error messages that can be returned by the API.
kAlreadyInstalledError == "This item is already installed"
kCannotSpecifyIconDataAndUrlError ==
  "You cannot specify both icon data and an icon url"
kInvalidIconUrlError == "Invalid icon url"
kInvalidIdError == "Invalid id"
kInvalidManifestError == "Invalid manifest"
kNoPreviousBeginInstallWithManifestError ==
  "* does not match a previous call to beginInstallWithManifest3"
kUserCancelledError == "User cancelled install"
kIncognitoError == "Apps cannot be installed in guest/incognito mode"

\* Messages the install helper / policy / installer hand over.
kHelperErrorMessage == "helper error"
kPolicyErrorMessage == "blocked by policy"
kInstallerErrorMessage == "install failed"

\* Error(format, s1): the '*' of the format is replaced by s1.  The only
\* format with a '*' is kNoPreviousBeginInstallWithManifestError.
ErrorWithId(format, id) ==
  IF format = kNoPreviousBeginInstallWithManifestError
    THEN id \o " does not match a previous call to beginInstallWithManifest3"
    ELSE format

\* WebstoreInstallHelperResultToApiResult
WebstoreInstallHelperResultToApiResult(result) ==
  CASE result = "UNKNOWN_ERROR"  -> "RESULT_UNKNOWN_ERROR"
    [] result = "ICON_ERROR"     -> "RESULT_ICON_ERROR"
    [] result = "MANIFEST_ERROR" -> "RESULT_MANIFEST_ERROR"
    [] OTHER                     -> "RESULT_NONE"

InstallHelperResultCodes == {"UNKNOWN_ERROR", "ICON_ERROR", "MANIFEST_ERROR"}

PromptResults == {"ACCEPTED", "USER_CANCELED", "ABORTED"}

----------------------------------------------------------------------------
(* chrome.webstorePrivate : PendingApprovals *)

\* An Approval; req is the identity of the object: the index in funcs of the
\* function whose HandleInstallProceed created it.
Approval(profile, id, req) ==
  [extension_id |-> id, profile |-> profile, req |-> req]

PushApproval(list, approval) == Append(list, approval)

RemoveAt(list, i) == SubSeq(list, 1, i - 1) \o SubSeq(list, i + 1, Len(list))

\* A variant of ApprovalMatches that compares the extension id alone.
ApprovalMatchesIdOnly(approval, profile, id) ==
  approval.extension_id = id

\* The test of PopApproval's loop.
ApprovalMatches(approval, profile, id) ==
  /\ approval.extension_id = id
  /\ IsSameProfile(profile, approval.profile)

\* The index PopApproval's loop stops at, 0 when it runs to the end.
PopIndex(list, profile, id) ==
  LET hits == {i \in 1..Len(list) : ApprovalMatches(list[i], profile, id)}
  IN  IF hits = {} THEN 0 ELSE CHOOSE i \in hits : \A j \in hits : i <= j

\* PopApproval: [found, approval, rest]
PopApproval(list, profile, id) ==
  LET i == PopIndex(list, profile, id)
  IN  IF i = 0
        THEN [found |-> FALSE, approval |-> Approval("", "", 0), rest |-> list]
        ELSE [found |-> TRUE, approval |-> list[i], rest |-> RemoveAt(list, i)]

----------------------------------------------------------------------------
(* chrome.webstorePrivate : extension functions *)

NoResponse == [ok |-> FALSE, result |-> "", error |-> ""]

\* BuildResponse of beginInstallWithManifest3
BuildResponse(result, error) ==
  IF result # "RESULT_SUCCESS"
    THEN [ok |-> FALSE, result |-> result, error |-> error]
    ELSE [ok |-> TRUE, result |-> "RESULT_EMPTY_STRING", error |-> ""]

\* Error(...) and NoArguments() of completeInstall
Error(error) == [ok |-> FALSE, result |-> "", error |-> error]
NoArguments == [ok |-> TRUE, result |-> "", error |-> ""]

\* A freshly constructed function object, before Run.
NewFunction(kind, profile, id) ==
  [kind |-> kind, profile |-> profile, id |-> id, pc |-> "run",
   responses |-> 0, response |-> NoResponse, prompt |-> "NONE", refs |-> 0]

\* Respond / RespondNow
Respond(f, response) ==
  [f EXCEPT !.responses = @ + 1, !.response = response]

AddRef(f) == [f EXCEPT !.refs = @ + 1]
Release(f) == [f EXCEPT !.refs = @ - 1]

Finish(f) == [f EXCEPT !.pc = "done"]

\* WebstorePrivateBeginInstallWithManifest3Function::Run
\* icon_url is "none", "valid" or "invalid" (after Resolve);
\* is_installed and active_install are the answers of ExtensionRegistry and
\* InstallTracker.
BeginInstallRunResult(profile, id, icon_data, icon_url, is_installed, active_install) ==
  LET f == NewFunction("begin", profile, id)
  IN  IF ~IdIsValid(id)
        THEN Finish(Respond(f, BuildResponse("RESULT_INVALID_ID",
                                             kInvalidIdError)))
      ELSE IF icon_data /\ icon_url # "none"
        THEN Finish(Respond(f, BuildResponse("RESULT_ICON_ERROR",
                                      kCannotSpecifyIconDataAndUrlError)))
      ELSE IF icon_url = "invalid"
        THEN Finish(Respond(f, BuildResponse("RESULT_INVALID_ICON_URL",
                                             kInvalidIconUrlError)))
      ELSE IF is_installed \/ active_install
        THEN Finish(Respond(f, BuildResponse("RESULT_ALREADY_INSTALLED",
                                             kAlreadyInstalledError)))
      ELSE [AddRef(f) EXCEPT !.pc = "parsing"]

BeginInstallRun(profile, id, icon_data, icon_url, is_installed, active_install) ==
  /\ Len(funcs) < MaxFunctions
  /\ funcs' = Append(funcs, BeginInstallRunResult(profile, id, icon_data,
                              icon_url, is_installed, active_install))
  /\ UNCHANGED <<approvals, installers, notWs>>

\* WebstorePrivateBeginInstallWithManifest3Function::OnWebstoreParseFailure
ParseFailureResult(f, result, error_message) ==
  Finish(Release(Respond(f,
    BuildResponse(WebstoreInstallHelperResultToApiResult(result),
                  error_message))))

OnWebstoreParseFailure(i, result) ==
  /\ i \in 1..Len(funcs)
  /\ funcs[i].kind = "begin" /\ funcs[i].pc = "parsing"
  /\ funcs' = [funcs EXCEPT ![i] =
                 ParseFailureResult(@, result, kHelperErrorMessage)]
  /\ UNCHANGED <<approvals, installers, notWs>>

\* The part of OnWebstoreParseSuccess after the dummy extension was built:
\* the management policy check, the web contents check, ShowDialog.
ParseSuccessRest(f, allow, has_web_contents) ==
  IF ~allow
    THEN Finish(Release(Respond(f, BuildResponse("RESULT_BLOCKED_BY_POLICY",
                                                 kPolicyErrorMessage))))
  ELSE IF ~has_web_contents
    THEN Finish(Release(Respond(f, BuildResponse("RESULT_USER_CANCELLED",
                                                 kUserCancelledError))))
  ELSE [f EXCEPT !.pc = "prompting"]

\* A variant of ParseSuccessResult that omits the return after delegating
\* to OnWebstoreParseFailure.
ParseSuccessResultNoReturn(f, dummy_extension_ok, allow, has_web_contents) ==
  IF ~dummy_extension_ok
    THEN ParseSuccessRest(
           ParseFailureResult(f, "MANIFEST_ERROR", kInvalidManifestError),
           allow, has_web_contents)
    ELSE ParseSuccessRest(f, allow, has_web_contents)

\* WebstorePrivateBeginInstallWithManifest3Function::OnWebstoreParseSuccess
ParseSuccessResult(f, dummy_extension_ok, allow, has_web_contents) ==
  IF ~dummy_extension_ok
    THEN ParseFailureResult(f, "MANIFEST_ERROR", kInvalidManifestError)
    ELSE ParseSuccessRest(f, allow, has_web_contents)

OnWebstoreParseSuccess(i, dummy_extension_ok, allow, has_web_contents) ==
  /\ i \in 1..Len(funcs)
  /\ funcs[i].kind = "begin" /\ funcs[i].pc = "parsing"
  /\ funcs' = [funcs EXCEPT ![i] =
                 ParseSuccessResult(@, dummy_extension_ok, allow,
                                    has_web_contents)]
  /\ UNCHANGED <<approvals, installers, notWs>>

\* A variant of HandleInstallProceed that responds without whitelisting.
HandleInstallProceedNoPush(f, i, list) ==
  [f |-> Respond(f, BuildResponse("RESULT_SUCCESS", "")),
   approvals |-> list]

\* WebstorePrivateBeginInstallWithManifest3Function::HandleInstallProceed
\* for function f, the i-th of funcs: [f, approvals] afterwards.
HandleInstallProceed(f, i, list) ==
  [f |-> Respond(f, BuildResponse("RESULT_SUCCESS", "")),
   approvals |-> PushApproval(list, Approval(f.profile, f.id, i))]

\* A variant of HandleInstallAbort that also whitelists the extension.
HandleInstallAbortPushing(f, i, list, user_initiated) ==
  [f |-> Respond(f, BuildResponse("RESULT_USER_CANCELLED",
                                  kUserCancelledError)),
   approvals |-> PushApproval(list, Approval(f.profile, f.id, i))]

\* WebstorePrivateBeginInstallWithManifest3Function::HandleInstallAbort
\* (user_initiated only selects the histogram name).
HandleInstallAbort(f, i, list, user_initiated) ==
  [f |-> Respond(f, BuildResponse("RESULT_USER_CANCELLED",
                                  kUserCancelledError)),
   approvals |-> list]

\* WebstorePrivateBeginInstallWithManifest3Function::OnInstallPromptDone
OnInstallPromptDone(i, result) ==
  /\ i \in 1..Len(funcs)
  /\ funcs[i].kind = "begin" /\ funcs[i].pc = "prompting"
  /\ LET f == [funcs[i] EXCEPT !.prompt = result]
         r == IF result = "ACCEPTED"
                THEN HandleInstallProceed(f, i, approvals)
                ELSE HandleInstallAbort(f, i, approvals,
                                        result = "USER_CANCELED")
     IN  /\ funcs' = [funcs EXCEPT ![i] = Finish(Release(r.f))]
         /\ approvals' = r.approvals
  /\ UNCHANGED <<installers, notWs>>

\* WebstorePrivateCompleteInstallFunction::Run: [f, approvals, installers]
\* afterwards; i is the index the function object gets in funcs.
CompleteInstallRunResult(profile, id, i, list, started) ==
  LET f   == NewFunction("complete", profile, id)
      pop == PopApproval(list, profile, id)
  IN  IF IsGuestSession(profile) \/ IsOffTheRecord(profile)
        THEN [f |-> Finish(Respond(f, Error(kIncognitoError))),
              approvals |-> list, installers |-> started]
      ELSE IF ~IdIsValid(id)
        THEN [f |-> Finish(Respond(f, Error(kInvalidIdError))),
              approvals |-> list, installers |-> started]
      ELSE IF ~pop.found
        THEN [f |-> Finish(Respond(f, Error(ErrorWithId(
                      kNoPreviousBeginInstallWithManifestError, id)))),
              approvals |-> pop.rest, installers |-> started]
      ELSE [f |-> [AddRef(f) EXCEPT !.pc = "installing"],
            approvals |-> pop.rest,
            installers |-> Append(started,
                [profile |-> profile, id |-> id, approval |-> pop.approval,
                 delegate |-> i])]

CompleteInstallRun(profile, id) ==
  /\ Len(funcs) < MaxFunctions
  /\ LET r == CompleteInstallRunResult(profile, id, Len(funcs) + 1,
                                       approvals, installers)
     IN  /\ funcs' = Append(funcs, r.f)
         /\ approvals' = r.approvals
         /\ installers' = r.installers
  /\ UNCHANGED notWs

\* WebstorePrivateCompleteInstallFunction::OnExtensionInstallSuccess
OnExtensionInstallSuccess(i) ==
  /\ i \in 1..Len(funcs)
  /\ funcs[i].kind = "complete" /\ funcs[i].pc = "installing"
  /\ funcs' = [funcs EXCEPT ![i] = Finish(Release(Respond(@, NoArguments)))]
  /\ UNCHANGED <<approvals, installers, notWs>>

\* WebstorePrivateCompleteInstallFunction::OnExtensionInstallFailure
OnExtensionInstallFailure(i) ==
  /\ i \in 1..Len(funcs)
  /\ funcs[i].kind = "complete" /\ funcs[i].pc = "installing"
  /\ funcs' = [funcs EXCEPT ![i] =
                 Finish(Release(Respond(@, Error(kInstallerErrorMessage))))]
  /\ UNCHANGED <<approvals, installers, notWs>>

\* WebstorePrivateApi::PopApprovalForTesting
PopApprovalForTesting(profile, id) ==
  /\ approvals' = PopApproval(approvals, profile, id).rest
  /\ approvals' # approvals
  /\ UNCHANGED <<funcs, installers, notWs>>

----------------------------------------------------------------------------
(* base::DictionaryValue, as far as the code uses it *)

\* A dictionary is a function from its keys to typed values [t, v].
EmptyDictionary == [k \in {} |-> 0]

IntegerValue(n) == [t |-> "integer", v |-> n]
BooleanValue(b) == [t |-> "boolean", v |-> b]
StringValue(str) == [t |-> "string", v |-> str]

\* d.GetInteger(key, &out): TRUE when the key holds an integer, and then out
\* is d[key].v; out is left alone otherwise.
GetInteger(d, key) == key \in DOMAIN d /\ d[key].t = "integer"

\* d.GetBooleanWithoutPathExpansion(key, &out)
GetBoolean(d, key) == key \in DOMAIN d /\ d[key].t = "boolean"

\* d.RemoveWithoutPathExpansion(key, nullptr)
RemoveKey(d, key) == [k \in DOMAIN d \ {key} |-> d[k]]

\* d.SetString(key, value), for a key without '.'
SetString(d, key, value) ==
  [k \in DOMAIN d \cup {key} |-> IF k = key THEN StringValue(value) ELSE d[k]]

----------------------------------------------------------------------------
(* TabCaptureCaptureOffscreenTabFunction::DetermineInitialSize *)

kDefaultWidth == 1280
kDefaultHeight == 720

\* gfx::Size
Size(width, height) == [width |-> width, height |-> height]

\* gfx::Size::IsEmpty
IsEmpty(size) == size.width = 0 \/ size.height = 0

Max(a, b) == IF a >= b THEN a ELSE b

\* props.GetInteger(wkey, &width) && width >= 0 &&
\* props.GetInteger(hkey, &height) && height >= 0.  When it is TRUE both out
\* parameters were written by this very test, so width and height are
\* props[wkey].v and props[hkey].v.
GetSizePair(props, wkey, hkey) ==
  /\ GetInteger(props, wkey) /\ props[wkey].v >= 0
  /\ GetInteger(props, hkey) /\ props[hkey].v >= 0

\* A variant of OptionalMaxSize that returns the optional maximum as it is.
OptionalMaxSizeUnbounded(min_size, width, height) == Size(width, height)

\* The size returned when the optional properties hold a maximum size.
OptionalMaxSize(min_size, width, height) ==
  IF IsEmpty(min_size)
    THEN Size(width, height)
    ELSE Size(Max(width, min_size.width), Max(height, min_size.height))

\* A variant of UsesOptionalMin without the min_size.IsEmpty() test.
UsesOptionalMinAlways(min_size, optional_properties) ==
  GetSizePair(optional_properties, "minWidth", "minHeight")

\* The test that lets the optional minimum size replace min_size.
UsesOptionalMin(min_size, optional_properties) ==
  /\ IsEmpty(min_size)
  /\ GetSizePair(optional_properties, "minWidth", "minHeight")

\* The default size bounded by the minimum size.
DefaultSizeBoundedBy(min_size) ==
  Size(Max(kDefaultWidth, min_size.width), Max(kDefaultHeight, min_size.height))

\* options.video_constraints and video_constraints->optional are scoped_ptrs:
\* <<>> is null, <<x>> points to x.
DetermineInitialSize(options) ==
  IF options.video_constraints = <<>>
    THEN Size(kDefaultWidth, kDefaultHeight)
  ELSE
    LET mandatory_properties == options.video_constraints[1].mandatory
        optional == options.video_constraints[1].optional
    IN  IF GetSizePair(mandatory_properties, "maxWidth", "maxHeight")
          THEN Size(mandatory_properties["maxWidth"].v,
                    mandatory_properties["maxHeight"].v)
        ELSE
          LET min_size ==
                IF GetSizePair(mandatory_properties, "minWidth", "minHeight")
                  THEN Size(mandatory_properties["minWidth"].v,
                            mandatory_properties["minHeight"].v)
                  ELSE Size(0, 0)
          IN  IF optional = <<>>
                THEN DefaultSizeBoundedBy(min_size)
              ELSE
                LET optional_properties == optional[1]
                IN  IF GetSizePair(optional_properties, "maxWidth", "maxHeight")
                      THEN OptionalMaxSize(min_size,
                             optional_properties["maxWidth"].v,
                             optional_properties["maxHeight"].v)
                    ELSE IF UsesOptionalMin(min_size, optional_properties)
                      THEN DefaultSizeBoundedBy(
                             Size(optional_properties["minWidth"].v,
                                  optional_properties["minHeight"].v))
                    ELSE DefaultSizeBoundedBy(min_size)

\* The values a width constraint and a height constraint take in the model:
\* negative, zero, below and above the default.
WidthValues == {-1, 0, 640, 2000}
HeightValues == {-1, 0, 480, 1080}

\* The dictionaries over the four size keys.
SizeDictionary(maxw, maxh, minw, minh) ==
  LET present == [maxWidth |-> maxw, maxHeight |-> maxh,
                  minWidth |-> minw, minHeight |-> minh]
      keys == {k \in {"maxWidth", "maxHeight", "minWidth", "minHeight"} :
                 present[k] # <<>>}
  IN  [k \in keys |-> IntegerValue(present[k][1])]

OptionalWidth == {<<>>} \cup {<<w>> : w \in WidthValues}
OptionalHeight == {<<>>} \cup {<<h>> : h \in HeightValues}

SizeDictionaries ==
  {SizeDictionary(maxw, maxh, minw, minh) :
     maxw \in OptionalWidth, maxh \in OptionalHeight,
     minw \in OptionalWidth, minh \in OptionalHeight}

\* options.video_constraints->optional: null or a dictionary.
OptionalSizeDictionaries == {<<>>} \cup {<<d>> : d \in SizeDictionaries}

\* The call DetermineInitialSize(params->options).
CallDetermineInitialSize ==
  /\ size_result = <<>>
  /\ size_result' = <<DetermineInitialSize(size_options)>>
  /\ UNCHANGED <<size_options, notSz>>

----------------------------------------------------------------------------
(* chrome.tabCapture *)

kCapturingSameTab == "Cannot capture a tab with an active stream."
kFindingTabError == "Error finding tab to capture."
kNoAudioOrVideo == "Capture failed. No audio or video requested."
kGrantError ==
  "Extension has not been invoked for the current page (see activeTab permission). Chrome pages cannot be captured."
kNotWhitelistedForOffscreenTabApi ==
  "Extension is not whitelisted for use of the unstable, in-development chrome.tabCapture.captureOffscreenTab API."
kInvalidStartUrl ==
  "Invalid/Missing/Malformatted starting URL for off-screen tab."
kTooManyOffscreenTabs ==
  "Extension has already started too many off-screen tabs."
kCapturingSameOffscreenTab ==
  "Cannot capture the same off-screen tab more than once."

kMediaStreamSource == "chromeMediaSource"
kMediaStreamSourceId == "chromeMediaSourceId"
kMediaStreamSourceTab == "tab"
kEnableAutoThrottlingKey == "enableAutoThrottling"

kBetaChromecastExtensionId == "dliochdbjfkdbacpmhlcpmleaejidimm"
kStableChromecastExtensionId == "boadgeojelhgndaghljhdicfkmllpafd"

kChromecastExtensionIds ==
  << "enhhojjnijigcajfphajepfemndkmdlo", "fmfcbgogabcbclcofgocippekhfcmgfj",
     "hfaagokkkhdbgiakmmlclaapfelnkoah", kBetaChromecastExtensionId,
     kStableChromecastExtensionId, "hlgmmjhlnlapooncikdpiiokdjcdpjme" >>

kMediaRouterExtensionIds ==
  << "pkedcjkdefgpdelpbcmbmeomcjbeemfm", "ekpaaapppgpmolpcldedioblbkmijaca" >>

\* SimpleFeature::IsIdInArray
IsIdInArray(extension_id, array) ==
  \E n \in 1..Len(array) : array[n] = extension_id

\* An extension that is in neither array.
kUnlistedExtensionId == "aaaaaaaaaaaaaaaaaaaaaaaaaaaaaaaa"

\* The extensions that call the API in the model: the stable Chromecast
\* extension, the stable Media Router extension and an unlisted one.
CallingExtensions ==
  {kStableChromecastExtensionId, kMediaRouterExtensionIds[1],
   kUnlistedExtensionId}

\* The values of --whitelisted-extension-id: absent, or the unlisted id.
SwitchValues == {"", kUnlistedExtensionId}

\* OptionsSpecifyAudioOrVideo; audio and video are scoped_ptr<bool>.
OptionsSpecifyAudioOrVideo(options) ==
  \/ (options.audio # <<>> /\ options.audio[1])
  \/ (options.video # <<>> /\ options.video[1])

\* A GURL is [valid, scheme].
IsAcceptableOffscreenTabUrlAnyScheme(url) == url.valid

\* IsAcceptableOffscreenTabUrl
IsAcceptableOffscreenTabUrl(url) ==
  url.valid /\ (url.scheme \in {"http", "https"} \/ url.scheme = "data")

\* new MediaStreamConstraint
NewMediaStreamConstraint == [mandatory |-> EmptyDictionary, optional |-> <<>>]

\* A variant of RemoveAutoThrottlingKey that leaves the key in place.
KeepAutoThrottlingKey(props) == props

\* props.RemoveWithoutPathExpansion(kEnableAutoThrottlingKey, nullptr)
RemoveAutoThrottlingKey(props) == RemoveKey(props, kEnableAutoThrottlingKey)

\* The device id that references the target tab; the process id and routing
\* id of the main frame are stood for by the name of the contents.
DeviceId(target_contents, enable_auto_throttling) ==
  "web-contents-media-stream://" \o target_contents \o
    (IF enable_auto_throttling THEN "?throttling=auto" ELSE "")

\* The loop body over constraints_to_modify.
AppendTabConstraints(msc, device_id) ==
  [msc EXCEPT !.mandatory =
     SetString(SetString(@, kMediaStreamSource, kMediaStreamSourceTab),
               kMediaStreamSourceId, device_id)]

\* AddMediaStreamSourceConstraints: the options afterwards.
AddMediaStreamSourceConstraints(target_contents, options) ==
  LET audio_on == options.audio # <<>> /\ options.audio[1]
      video_on == options.video # <<>> /\ options.video[1]
      audio_constraints ==
        IF audio_on /\ options.audio_constraints = <<>>
          THEN <<NewMediaStreamConstraint>>
          ELSE options.audio_constraints
      props ==
        IF options.video_constraints # <<>>
          THEN options.video_constraints[1].mandatory
          ELSE EmptyDictionary
      enable_auto_throttling ==
        /\ video_on /\ options.video_constraints # <<>>
        /\ GetBoolean(props, kEnableAutoThrottlingKey)
        /\ props[kEnableAutoThrottlingKey].v
      video_constraints ==
        IF video_on
          THEN IF options.video_constraints # <<>>
                 THEN <<[options.video_constraints[1] EXCEPT
                           !.mandatory = RemoveAutoThrottlingKey(props)]>>
                 ELSE <<NewMediaStreamConstraint>>
          ELSE options.video_constraints
      device_id == DeviceId(target_contents, enable_auto_throttling)
  IN  [options EXCEPT
         !.audio_constraints =
           IF audio_on
             THEN <<AppendTabConstraints(audio_constraints[1], device_id)>>
             ELSE audio_constraints,
         !.video_constraints =
           IF video_on
             THEN <<AppendTabConstraints(video_constraints[1], device_id)>>
             ELSE video_constraints]

\* MediaStreamConstraint::ToValue
ConstraintToValue(msc) ==
  [k \in {"mandatory"} \cup (IF msc.optional = <<>> THEN {} ELSE {"optional"})
     |-> [t |-> "dictionary",
          v |-> IF k = "mandatory" THEN msc.mandatory ELSE msc.optional[1]]]

\* CaptureOptions::ToValue: the keys that are set.
ToValue(options) ==
  LET keys == (IF options.audio = <<>> THEN {} ELSE {"audio"}) \cup
              (IF options.video = <<>> THEN {} ELSE {"video"}) \cup
              (IF options.audio_constraints = <<>>
                 THEN {} ELSE {"audioConstraints"}) \cup
              (IF options.video_constraints = <<>>
                 THEN {} ELSE {"videoConstraints"}) \cup
              (IF options.presentation_id = <<>>
                 THEN {} ELSE {"presentationId"})
  IN  [k \in keys |->
         CASE k = "audio" -> BooleanValue(options.audio[1])
           [] k = "video" -> BooleanValue(options.video[1])
           [] k = "audioConstraints" ->
                [t |-> "dictionary",
                 v |-> ConstraintToValue(options.audio_constraints[1])]
           [] k = "videoConstraints" ->
                [t |-> "dictionary",
                 v |-> ConstraintToValue(options.video_constraints[1])]
           [] k = "presentationId" -> StringValue(options.presentation_id[1])]

\* TabCaptureRegistry::AddRequest(target_contents, extension_id, is_offscreen):
\* refused while the contents has a request.
AddRequest(requests, target_contents, extension_id, is_offscreen) ==
  IF \E r \in requests : r.target_contents = target_contents
    THEN [ok |-> FALSE, requests |-> requests]
    ELSE [ok |-> TRUE,
          requests |-> requests \cup
            {[target_contents |-> target_contents,
              extension_id |-> extension_id, is_offscreen |-> is_offscreen]}]

\* A variant of HasCaptureGrant that takes a switch value different from the
\* extension id for a grant.
HasCaptureGrantSwitchDiffers(has_permission, switch, extension_id) ==
  \/ has_permission
  \/ switch # extension_id
  \/ IsIdInArray(extension_id, kChromecastExtensionIds)
  \/ IsIdInArray(extension_id, kMediaRouterExtensionIds)

\* The negation of the test that leads to kGrantError.
HasCaptureGrant(has_permission, switch, extension_id) ==
  ~(/\ ~has_permission
    /\ switch # extension_id
    /\ ~IsIdInArray(extension_id, kChromecastExtensionIds)
    /\ ~IsIdInArray(extension_id, kMediaRouterExtensionIds))

\* The state of a function object after RunSync.
\* opened is <<>>, or <<the arguments of the OpenNewTab call that opened a tab>>.
Failure(error, requests, tabs, opened) ==
  [ok |-> FALSE, error |-> error, bad_message |-> FALSE, result |-> <<>>,
   requests |-> requests, tabs |-> tabs, opened |-> opened]

\* EXTENSION_FUNCTION_VALIDATE failed.
BadMessage(requests, tabs) ==
  [ok |-> FALSE, error |-> "", bad_message |-> TRUE, result |-> <<>>,
   requests |-> requests, tabs |-> tabs, opened |-> <<>>]

Success(result, requests, tabs, opened) ==
  [ok |-> TRUE, error |-> "", bad_message |-> FALSE, result |-> <<result>>,
   requests |-> requests, tabs |-> tabs, opened |-> opened]

\* TabCaptureCaptureFunction::RunSync.  target_browser is <<>> (none found)
\* or <<[active_web_contents |-> c]>> with c = <<>> or <<contents>>;
\* has_permission is the answer of HasAPIPermissionForTab.
CaptureRunSync(extension_id, target_browser, has_permission, options) ==
  IF target_browser = <<>>
    THEN Failure(kFindingTabError, registry, offscreen_tabs, <<>>)
  ELSE IF target_browser[1].active_web_contents = <<>>
    THEN Failure(kFindingTabError, registry, offscreen_tabs, <<>>)
  ELSE
    LET target_contents == target_browser[1].active_web_contents[1]
        added == AddRequest(registry, target_contents, extension_id, FALSE)
    IN  IF ~HasCaptureGrant(has_permission, switch_value, extension_id)
          THEN Failure(kGrantError, registry, offscreen_tabs, <<>>)
        ELSE IF ~OptionsSpecifyAudioOrVideo(options)
          THEN Failure(kNoAudioOrVideo, registry, offscreen_tabs, <<>>)
        ELSE IF ~added.ok
          THEN Failure(kCapturingSameTab, added.requests, offscreen_tabs, <<>>)
        ELSE Success(ToValue(AddMediaStreamSourceConstraints(target_contents,
                                                             options)),
                     added.requests, offscreen_tabs, <<>>)

\* is_whitelisted_extension of captureOffscreenTab
IsWhitelistedExtension(switch, extension_id) ==
  \/ switch = extension_id
  \/ IsIdInArray(extension_id, kChromecastExtensionIds)
  \/ IsIdInArray(extension_id, kMediaRouterExtensionIds)

\* The web contents of the n-th off-screen tab of an extension.
OffscreenContents(extension_id, n) ==
  "offscreen-" \o ToString(n) \o "-" \o extension_id

\* OffscreenTabsOwner::Get(extension_web_contents)->OpenNewTab(...): null
\* when the extension already runs MaxOffscreenTabs tabs.  tabs[e] is the
\* number of off-screen tabs of extension e.
OpenNewTab(tabs, extension_id, start_url, initial_size, presentation_id) ==
  IF tabs[extension_id] >= MaxOffscreenTabs
    THEN [tab |-> <<>>, tabs |-> tabs, args |-> <<>>]
    ELSE [tab |-> <<OffscreenContents(extension_id, tabs[extension_id] + 1)>>,
          tabs |-> [tabs EXCEPT ![extension_id] = @ + 1],
          args |-> <<[start_url |-> start_url, initial_size |-> initial_size,
                      presentation_id |-> presentation_id]>>]

\* TabCaptureCaptureOffscreenTabFunction::RunSync.  has_sender is whether
\* GetSenderWebContents() is not null.
CaptureOffscreenTabRunSync(extension_id, start_url, has_sender, options) ==
  LET is_whitelisted_extension ==
        IsWhitelistedExtension(switch_value, extension_id)
      opened == OpenNewTab(offscreen_tabs, extension_id, start_url,
                  DetermineInitialSize(options),
                  IF is_whitelisted_extension /\ options.presentation_id # <<>>
                    THEN options.presentation_id[1] ELSE "")
  IN  IF ~is_whitelisted_extension
        THEN Failure(kNotWhitelistedForOffscreenTabApi, registry,
                     offscreen_tabs, <<>>)
      ELSE IF ~IsAcceptableOffscreenTabUrl(start_url)
        THEN Failure(kInvalidStartUrl, registry, offscreen_tabs, <<>>)
      ELSE IF ~OptionsSpecifyAudioOrVideo(options)
        THEN Failure(kNoAudioOrVideo, registry, offscreen_tabs, <<>>)
      ELSE IF ~has_sender
        THEN BadMessage(registry, offscreen_tabs)
      ELSE IF opened.tab = <<>>
        THEN Failure(kTooManyOffscreenTabs, registry, opened.tabs, <<>>)
      ELSE
        LET added == AddRequest(registry, opened.tab[1], extension_id, TRUE)
        IN  IF ~added.ok
              THEN Failure(kCapturingSameOffscreenTab, added.requests,
                           opened.tabs, opened.args)
              ELSE Success(ToValue(AddMediaStreamSourceConstraints(
                                     opened.tab[1], options)),
                           added.requests, opened.tabs, opened.args)

\* The inputs of the model.
TargetBrowsers ==
  {<<>>, <<[active_web_contents |-> <<>>]>>,
   <<[active_web_contents |-> <<"tab1">>]>>}

StartUrls ==
  {[valid |-> TRUE, scheme |-> s] : s \in {"http", "https", "data", "ftp"}}
    \cup {[valid |-> FALSE, scheme |-> ""]}

CaptureOptions(audio, video, audio_constraints, video_constraints, pid) ==
  [audio |-> audio, video |-> video, audio_constraints |-> audio_constraints,
   video_constraints |-> video_constraints, presentation_id |-> pid]

\* The flag combinations: nothing requested, video refused, audio, video,
\* and both for a presentation.
FlagOptions ==
  {CaptureOptions(<<>>, <<>>, <<>>, <<>>, <<>>),
   CaptureOptions(<<>>, <<FALSE>>, <<>>, <<>>, <<>>),
   CaptureOptions(<<TRUE>>, <<>>, <<>>, <<>>, <<>>),
   CaptureOptions(<<FALSE>>, <<TRUE>>, <<>>, <<>>, <<>>),
   CaptureOptions(<<TRUE>>, <<TRUE>>, <<>>, <<>>, <<"presentation">>)}

\* The mandatory properties of the supplied video constraints.
VideoProperties ==
  {EmptyDictionary,
   [k \in {kEnableAutoThrottlingKey} |-> BooleanValue(TRUE)],
   [k \in {kEnableAutoThrottlingKey} |-> StringValue("yes")],
   [k \in {kEnableAutoThrottlingKey, "minWidth", "minHeight"} |->
      IF k = kEnableAutoThrottlingKey THEN BooleanValue(FALSE)
      ELSE IntegerValue(2000)]}

\* Every combination of the flags with supplied constraints.
ConstraintOptions ==
  {CaptureOptions(a, v, ac, vc, p) :
     a \in {<<>>, <<TRUE>>}, v \in {<<>>, <<FALSE>>, <<TRUE>>},
     ac \in {<<>>, <<NewMediaStreamConstraint>>},
     vc \in {<<>>} \cup
            {<<[mandatory |-> m, optional |-> <<>>]>> : m \in VideoProperties},
     p \in {<<>>}}

\* chrome.tabCapture.capture(options) called by an extension.
TabCaptureCapture(extension_id, target_browser, has_permission, options) ==
  /\ has_permission =>
       (target_browser # <<>> /\ target_browser[1].active_web_contents # <<>>)
  /\ LET r == CaptureRunSync(extension_id, target_browser, has_permission,
                             options)
     IN  /\ call' = [function |-> "capture", extension_id |-> extension_id,
                     target_browser |-> target_browser,
                     has_permission |-> has_permission,
                     start_url |-> [valid |-> FALSE, scheme |-> ""],
                     options |-> options, ok |-> r.ok, error |-> r.error,
                     bad_message |-> r.bad_message, result |-> r.result,
                     opened |-> r.opened]
         /\ registry' = r.requests
         /\ offscreen_tabs' = r.tabs
  /\ UNCHANGED <<switch_value, notTc>>

\* chrome.tabCapture.captureOffscreenTab(startUrl, options) called by an
\* extension.
TabCaptureCaptureOffscreenTab(extension_id, start_url, has_sender, options) ==
  /\ LET r == CaptureOffscreenTabRunSync(extension_id, start_url, has_sender,
                                         options)
     IN  /\ call' = [function |-> "captureOffscreenTab",
                     extension_id |-> extension_id,
                     target_browser |-> <<>>, has_permission |-> FALSE,
                     start_url |-> start_url,
                     options |-> options, ok |-> r.ok, error |-> r.error,
                     bad_message |-> r.bad_message, result |-> r.result,
                     opened |-> r.opened]
         /\ registry' = r.requests
         /\ offscreen_tabs' = r.tabs
  /\ UNCHANGED <<switch_value, notTc>>

----------------------------------------------------------------------------
(* signed-in devices : id mapping helper *)

\* A public id is a std::string of decimal digits, modelled as the sequence
\* of its digits; <<>> is the empty string.  A GUID is a string.

\* base::IntToString(n) for n >= 0: the decimal digits, most significant
\* first.
RECURSIVE IntToString(_)
IntToString(n) ==
  IF n < 10 THEN <<n>> ELSE Append(IntToString(n \div 10), n % 10)

\* std::string operator<, the order in which a DictionaryValue is iterated.
RECURSIVE StringLess(_, _)
StringLess(a, b) ==
  IF b = <<>> THEN FALSE
  ELSE IF a = <<>> THEN TRUE
  ELSE IF a[1] # b[1] THEN a[1] < b[1]
  ELSE StringLess(Tail(a), Tail(b))

\* value.GetAsString(&out)
GetAsString(value) == value.t = "string"

\* A variant of GetPublicIdFromGUID that never finds the GUID.
GetPublicIdFromGUIDNotFound(id_mapping, guid) == <<>>

\* GetPublicIdFromGUID: the first key, in iteration order, whose value is the
\* string guid; values that are not strings are skipped.
GetPublicIdFromGUID(id_mapping, guid) ==
  LET found == {k \in DOMAIN id_mapping :
                  GetAsString(id_mapping[k]) /\ id_mapping[k].v = guid}
  IN  IF found = {}
        THEN <<>>
        ELSE CHOOSE k \in found : \A j \in found \ {k} : StringLess(k, j)

\* GetGUIDFromPublicId: guid stays empty when GetString fails.
GetGUIDFromPublicId(id_mapping, id) ==
  IF id \in DOMAIN id_mapping /\ GetAsString(id_mapping[id])
    THEN id_mapping[id].v
    ELSE ""

\* base::RandInt(min, max): the values it can return.
RandInt(min, max) == min..max

\* The do-while loop of GetRandomId.
RECURSIVE FirstUnusedId(_, _)
FirstUnusedId(mapping, rand_value) ==
  IF IntToString(rand_value) \in DOMAIN mapping
    THEN FirstUnusedId(mapping, rand_value + 1)
    ELSE IntToString(rand_value)

\* A variant of GetRandomId that returns the random id without looking for
\* an unused one.
GetRandomIdNoLoop(mapping, device_count, rand_value) == IntToString(rand_value)

\* GetRandomId, with rand_value the value that base::RandInt(0, max) returned.
GetRandomId(mapping, device_count, rand_value) ==
  FirstUnusedId(mapping, rand_value)

\* The loop of CreateMappingForUnmappedDevices from index i on: the set of
\* the [device_info, value] it can end with, one for each sequence of values
\* that base::RandInt returns.
RECURSIVE CreateMappingFrom(_, _, _)
CreateMappingFrom(device_info, value, i) ==
  IF i > Len(device_info)
    THEN {[device_info |-> device_info, value |-> value]}
    ELSE
      LET device == device_info[i]
          local_id == GetPublicIdFromGUID(value, device.guid)
      IN  IF local_id = <<>>
            THEN UNION
              {LET new_id == GetRandomId(value, Len(device_info), rand_value)
               IN  CreateMappingFrom(
                     [device_info EXCEPT ![i].public_id = new_id],
                     SetString(value, new_id, device.guid), i + 1) :
                 rand_value \in RandInt(0, Len(device_info) * 2)}
            ELSE CreateMappingFrom(
                   [device_info EXCEPT ![i].public_id = local_id], value, i + 1)

\* CreateMappingForUnmappedDevices(device_info, value)
CreateMappingForUnmappedDevices(device_info, value) ==
  CreateMappingFrom(device_info, value, 1)

\* The inputs of the model: the GUIDs of the devices in the list, the GUIDs
\* in the initial mapping, the device lists (public ids not set yet) and the
\* initial mappings (string values only).
DeviceGuids == {"guid-a", "guid-b", "guid-c"}
MappedGuids == {"guid-a", "guid-b"}

DeviceLists ==
  UNION {[1..n -> [guid : DeviceGuids, public_id : {<<>>}]] : n \in 0..MaxDevices}

KeyRange(lo, n) == {IntToString(k) : k \in lo..(lo + n - 1)}

\* A call of CreateMappingForUnmappedDevices on the device list and the
\* mapping.
CallCreateMappingForUnmappedDevices ==
  /\ mapping_calls < MaxMappingCalls
  /\ \E out \in CreateMappingForUnmappedDevices(devices, dictionary) :
       /\ devices' = out.device_info
       /\ dictionary' = out.value
  /\ mapping_calls' = mapping_calls + 1
  /\ UNCHANGED notDv

----------------------------------------------------------------------------
(* PlatformNotificationServiceImpl : persistent notification operations *)

BrowserThreads == {"UI", "IO"}

\* A variant of PostTask that queues the task on the UI thread.
PostTaskToUI(queues, thread, task) ==
  [queues EXCEPT !["UI"] = Append(@, task)]

\* BrowserThread::PostTask(thread, FROM_HERE, task)
PostTask(queues, thread, task) ==
  [queues EXCEPT ![thread] = Append(@, task)]

\* An entry of the trace: what ran, for which close (0 when for none), for
\* which notification, on which thread, with which detail.
Event(event, close, id, thread, detail) ==
  [event |-> event, close |-> close, id |-> id, thread |-> thread,
   detail |-> detail]

\* The number of OnPersistentNotificationClose calls in the trace tr.
CloseCount(tr) == Cardinality({p \in 1..Len(tr) : tr[p].event = "close"})

\* base::Bind(&PlatformNotificationContext::DeleteNotificationData, context,
\* persistent_notification_id, origin,
\* base::Bind(&OnPersistentNotificationDataDeleted)); close numbers the close
\* that bound it.
BindDeleteNotificationData(close, id, origin) ==
  [run |-> "DeleteNotificationData", close |-> close, id |-> id,
   origin |-> origin, success |-> FALSE]

\* The bound result callback with its argument.
BindDataDeleted(task, success) ==
  [task EXCEPT !.run = "OnPersistentNotificationDataDeleted",
               !.success = success]

\* OnPersistentNotificationClose: the task queues and the trace afterwards.
OnPersistentNotificationClose(queues, tr, id, origin, by_user) ==
  LET close == CloseCount(tr) + 1
  IN  [queues |-> PostTask(queues, "IO",
                           BindDeleteNotificationData(close, id, origin)),
       trace |-> Append(tr,
                   Event("close", close, id, "UI",
                         IF by_user
                           THEN "Notifications.Persistent.ClosedByUser"
                           ELSE "Notifications.Persistent.ClosedProgrammatically"))]

\* OnPersistentNotificationClick: permission is the answer of
\* CheckPermissionOnUIThread.
OnPersistentNotificationClick(queues, tr, id, origin, action_index, permission) ==
  [queues |-> queues,
   trace |-> Append(tr,
               Event("click", 0, id, "UI",
                     IF permission # "allowed"
                       THEN "Notifications.Persistent.ClickedWithoutPermission"
                     ELSE IF action_index = -1
                       THEN "Notifications.Persistent.Clicked"
                       ELSE "Notifications.Persistent.ClickedActionButton"))]

\* The inputs of the model.
NotificationOperations ==
  {"NOTIFICATION_CLICK", "NOTIFICATION_CLOSE", "NOTIFICATION_SETTINGS"}
CreateStatuses ==
  {"CREATE_STATUS_LOCAL_FAIL", "CREATE_STATUS_CREATED",
   "CREATE_STATUS_INITIALIZED"}
NotificationIds == {1, 2}
NotificationOrigins == {"https://origin.example"}
ActionIndexes == {-1, 0}
Permissions == {"allowed", "denied"}

\* ProcessPersistentNotificationOperation: nothing happens for a profile path
\* that does not exist; otherwise the profile is loaded with
\* ProfileLoadedCallback bound to the arguments.
ProcessPersistentNotificationOperation(operation, profile_exists, incognito, origin, id, action_index) ==
  /\ operations < MaxOperations
  /\ operations' = operations + 1
  /\ pending_loads' =
       IF profile_exists
         THEN Append(pending_loads,
                     [operation |-> operation, origin |-> origin, id |-> id,
                      action_index |-> action_index, incognito |-> incognito])
         ELSE pending_loads
  /\ UNCHANGED <<task_queues, notification_data, trace, notNt>>

\* ProfileLoadedCallback, run on the UI thread for the i-th pending load.
\* CREATE_STATUS_CREATED is ignored and the callback is run again later.
ProfileLoadedCallback(i, status, permission) ==
  LET bound == pending_loads[i]
      r == IF bound.operation = "NOTIFICATION_CLICK"
             THEN OnPersistentNotificationClick(task_queues, trace, bound.id,
                    bound.origin, bound.action_index, permission)
           ELSE IF bound.operation = "NOTIFICATION_CLOSE"
             THEN OnPersistentNotificationClose(task_queues, trace, bound.id,
                    bound.origin, TRUE)
           ELSE [queues |-> task_queues, trace |-> trace]
  IN  /\ i \in 1..Len(pending_loads)
      /\ IF status = "CREATE_STATUS_CREATED"
           THEN UNCHANGED <<pending_loads, task_queues, trace>>
         ELSE IF status # "CREATE_STATUS_INITIALIZED"
           THEN /\ pending_loads' = RemoveAt(pending_loads, i)
                /\ UNCHANGED <<task_queues, trace>>
         ELSE /\ pending_loads' = RemoveAt(pending_loads, i)
              /\ task_queues' = r.queues
              /\ trace' = r.trace
      /\ UNCHANGED <<notification_data, operations, notNt>>

\* A notification delegate reports a close on the UI thread.
DelegateClose(id, origin, by_user) ==
  /\ CloseCount(trace) < MaxCloses
  /\ LET r == OnPersistentNotificationClose(task_queues, trace, id, origin,
                                            by_user)
     IN  /\ task_queues' = r.queues
         /\ trace' = r.trace
  /\ UNCHANGED <<pending_loads, notification_data, operations, notNt>>

\* The message loop of a thread runs the task at the head of its queue.
\* DeleteNotificationData deletes the data, or fails to, and hands the result
\* to the bound callback on the thread it ran on.
RunTask(thread, success) ==
  /\ task_queues[thread] # <<>>
  /\ LET task == Head(task_queues[thread])
         rest == [task_queues EXCEPT ![thread] = Tail(@)]
     IN  IF task.run = "DeleteNotificationData"
           THEN /\ notification_data' =
                     IF success THEN notification_data \ {task.id}
                     ELSE notification_data
                /\ task_queues' =
                     PostTask(rest, thread, BindDataDeleted(task, success))
                /\ trace' = Append(trace,
                              Event("delete", task.close, task.id, thread, ""))
           ELSE /\ success = task.success
                /\ notification_data' = notification_data
                /\ task_queues' = rest
                /\ trace' = Append(trace,
                              Event("deleted", task.close, task.id, thread,
                                    "Notifications.PersistentNotificationDataDeleted"))
  /\ UNCHANGED <<pending_loads, operations, notNt>>

----------------------------------------------------------------------------
(* Specifications *)

\* The initial values of the variables of each code path.
InitWs ==
  /\ approvals = <<>>
  /\ funcs = <<>>
  /\ installers = <<>>

InitSzIdle ==
  /\ size_options = [video_constraints |-> <<>>]
  /\ size_result = <<>>

NoCall ==
  [function |-> "none", extension_id |-> "", target_browser |-> <<>>,
   has_permission |-> FALSE, start_url |-> [valid |-> FALSE, scheme |-> ""],
   options |-> [audio |-> <<>>, video |-> <<>>, audio_constraints |-> <<>>,
                video_constraints |-> <<>>, presentation_id |-> <<>>],
   ok |-> FALSE, error |-> "", bad_message |-> FALSE, result |-> <<>>,
   opened |-> <<>>]

InitTcIdle ==
  /\ switch_value = ""
  /\ registry = {}
  /\ offscreen_tabs = [e \in CallingExtensions |-> 0]
  /\ call = NoCall

InitDvIdle ==
  /\ devices = <<>>
  /\ dictionary = EmptyDictionary
  /\ mapping_calls = 0

InitNtIdle ==
  /\ pending_loads = <<>>
  /\ task_queues = [t \in BrowserThreads |-> <<>>]
  /\ notification_data = {}
  /\ trace = <<>>
  /\ operations = 0

InitWebstore ==
  InitWs /\ InitSzIdle /\ InitTcIdle /\ InitDvIdle /\ InitNtIdle

NextWebstore ==
  \/ \E profile \in Profiles, id \in ExtensionIds, icon_data \in BOOLEAN,
        icon_url \in {"none", "valid", "invalid"},
        is_installed \in BOOLEAN, active_install \in BOOLEAN :
       BeginInstallRun(profile, id, icon_data, icon_url, is_installed,
                       active_install)
  \/ \E i \in 1..Len(funcs), result \in InstallHelperResultCodes :
       OnWebstoreParseFailure(i, result)
  \/ \E i \in 1..Len(funcs), dummy_extension_ok \in BOOLEAN,
        allow \in BOOLEAN, has_web_contents \in BOOLEAN :
       OnWebstoreParseSuccess(i, dummy_extension_ok, allow, has_web_contents)
  \/ \E i \in 1..Len(funcs), result \in PromptResults :
       OnInstallPromptDone(i, result)
  \/ \E profile \in Profiles, id \in ExtensionIds :
       CompleteInstallRun(profile, id)
  \/ \E i \in 1..Len(funcs) : OnExtensionInstallSuccess(i)
  \/ \E i \in 1..Len(funcs) : OnExtensionInstallFailure(i)
  \/ \E profile \in Profiles, id \in ExtensionIds :
       PopApprovalForTesting(profile, id)

SpecWebstore == InitWebstore /\ [][NextWebstore]_vars

InitSize ==
  /\ InitWs /\ InitTcIdle /\ InitDvIdle /\ InitNtIdle
  /\ \/ size_options = [video_constraints |-> <<>>]
     \/ \E m \in SizeDictionaries, o \in OptionalSizeDictionaries :
          size_options =
            [video_constraints |-> <<[mandatory |-> m, optional |-> o]>>]
  /\ size_result = <<>>

NextSize == CallDetermineInitialSize

SpecSize == InitSize /\ [][NextSize]_vars

InitTabCapture ==
  /\ InitWs /\ InitSzIdle /\ InitDvIdle /\ InitNtIdle
  /\ switch_value \in SwitchValues
  /\ registry = {}
  /\ offscreen_tabs = [e \in CallingExtensions |-> 0]
  /\ call = NoCall

\* Every extension, target and start URL with the flag combinations.
NextTabCapture ==
  \/ \E extension_id \in CallingExtensions, target_browser \in TargetBrowsers,
        has_permission \in BOOLEAN, options \in FlagOptions :
       TabCaptureCapture(extension_id, target_browser, has_permission, options)
  \/ \E extension_id \in CallingExtensions, start_url \in StartUrls,
        has_sender \in BOOLEAN, options \in FlagOptions :
       TabCaptureCaptureOffscreenTab(extension_id, start_url, has_sender,
                                     options)

SpecTabCapture == InitTabCapture /\ [][NextTabCapture]_vars

\* The Chromecast extension on tab1 and on http / ftp off-screen tabs with
\* every combination of flags and constraints.
NextCaptureOptions ==
  \/ \E options \in ConstraintOptions :
       TabCaptureCapture(kStableChromecastExtensionId,
                         <<[active_web_contents |-> <<"tab1">>]>>, TRUE, options)
  \/ \E scheme \in {"http", "ftp"}, options \in ConstraintOptions :
       TabCaptureCaptureOffscreenTab(kStableChromecastExtensionId,
                                     [valid |-> TRUE, scheme |-> scheme],
                                     TRUE, options)

SpecCaptureOptions == InitTabCapture /\ [][NextCaptureOptions]_vars

\* A device list from sync and a mapping with string values only.
InitDevices ==
  /\ InitWs /\ InitSzIdle /\ InitTcIdle /\ InitNtIdle
  /\ devices \in DeviceLists
  /\ \E lo \in 0..MaxKey, n \in 0..MaxMapped :
       /\ lo + n - 1 <= MaxKey
       /\ dictionary \in
            [KeyRange(lo, n) -> {StringValue(g) : g \in MappedGuids}]
  /\ mapping_calls = 0

NextDevices == CallCreateMappingForUnmappedDevices

SpecDevices == InitDevices /\ [][NextDevices]_vars

\* No operation started, no task queued, any notification data stored.
InitNotifications ==
  /\ InitWs /\ InitSzIdle /\ InitTcIdle /\ InitDvIdle
  /\ pending_loads = <<>>
  /\ task_queues = [t \in BrowserThreads |-> <<>>]
  /\ notification_data \in SUBSET NotificationIds
  /\ trace = <<>>
  /\ operations = 0

NextNotifications ==
  \/ \E operation \in NotificationOperations, profile_exists \in BOOLEAN,
        incognito \in BOOLEAN, origin \in NotificationOrigins,
        id \in NotificationIds, action_index \in ActionIndexes :
       ProcessPersistentNotificationOperation(operation, profile_exists,
                                              incognito, origin, id,
                                              action_index)
  \/ \E i \in 1..Len(pending_loads), status \in CreateStatuses,
        permission \in Permissions :
       ProfileLoadedCallback(i, status, permission)
  \/ \E id \in NotificationIds, origin \in NotificationOrigins,
        by_user \in BOOLEAN :
       DelegateClose(id, origin, by_user)
  \/ \E thread \in BrowserThreads, success \in BOOLEAN :
       RunTask(thread, success)

SpecNotifications == InitNotifications /\ [][NextNotifications]_vars

----------------------------------------------------------------------------
(* chrome.webstorePrivate : properties *)

\* The pending-approvals list holds an approval for id whose profile
\* IsSameProfile as profile.
HoldsApprovalFor(list, profile, id) ==
  \E k \in 1..Len(list) :
    /\ list[k].extension_id = id
    /\ GetOriginalProfile(list[k].profile) = GetOriginalProfile(profile)

\* This step is a run of WebstorePrivateCompleteInstallFunction::Run.
CompleteInstallStep ==
  /\ Len(funcs') = Len(funcs) + 1
  /\ funcs'[Len(funcs')].kind = "complete"

NoPreviousBeginInstallResponse(id) ==
  [ok |-> FALSE, result |-> "",
   error |-> id \o " does not match a previous call to beginInstallWithManifest3"]

\* An installer is started only with a matching approval of the list, which
\* the run removes from the list.
InstallerNeedsApproval ==
  installers' # installers =>
    /\ CompleteInstallStep
    /\ Len(installers') = Len(installers) + 1
    /\ SubSeq(installers', 1, Len(installers)) = installers
    /\ LET inst == installers'[Len(installers')]
           f    == funcs'[Len(funcs')]
       IN  /\ inst.id = f.id /\ inst.profile = f.profile
           /\ HoldsApprovalFor(approvals, f.profile, f.id)
           /\ \E k \in 1..Len(approvals) :
                /\ approvals[k] = inst.approval
                /\ inst.approval.extension_id = f.id
                /\ GetOriginalProfile(inst.approval.profile) =
                     GetOriginalProfile(f.profile)
                /\ approvals' = RemoveAt(approvals, k)
           /\ f.responses = 0

\* Every approval handed to an installer was created by a
\* beginInstallWithManifest3 for the same id whose prompt was ACCEPTED, and is
\* consumed once: it is in no other installer and no longer in the list.
ApprovalHistory ==
  /\ \A n \in 1..Len(installers) :
       LET a == installers[n].approval
       IN  /\ a.req \in 1..Len(funcs)
           /\ funcs[a.req].kind = "begin"
           /\ funcs[a.req].prompt = "ACCEPTED"
           /\ funcs[a.req].id = a.extension_id
           /\ funcs[a.req].profile = a.profile
           /\ \A m \in 1..Len(installers) :
                installers[m].approval.req = a.req => m = n
           /\ \A k \in 1..Len(approvals) : approvals[k].req # a.req

\* C1 as stated: completeInstall starts an installer for id X in profile P
\* only if the pending-approvals list holds an approval for X whose profile
\* IsSameProfile as P; otherwise it responds with the error
\* "<id> does not match a previous call to beginInstallWithManifest3" and
\* starts no installer.
C1_AsStated ==
  [][/\ InstallerNeedsApproval
     /\ (CompleteInstallStep /\
         ~HoldsApprovalFor(approvals, funcs'[Len(funcs')].profile,
                           funcs'[Len(funcs')].id))
        => /\ installers' = installers
           /\ funcs'[Len(funcs')].response =
                NoPreviousBeginInstallResponse(funcs'[Len(funcs')].id)]_vars

\* C1 amended: completeInstall starts an installer for id X in profile P only
\* if the pending-approvals list holds an approval for X whose profile
\* IsSameProfile as P, created by an accepted beginInstallWithManifest3 and not
\* consumed since; otherwise it starts no installer, leaves the list unchanged
\* and responds with exactly one error: kIncognitoError for a guest or
\* off-the-record profile, else kInvalidIdError for an invalid id, else
\* "<id> does not match a previous call to beginInstallWithManifest3".
C1_CompleteInstallNeedsApproval ==
  [][/\ InstallerNeedsApproval
     /\ ApprovalHistory'
     /\ (CompleteInstallStep /\
         ~HoldsApprovalFor(approvals, funcs'[Len(funcs')].profile,
                           funcs'[Len(funcs')].id))
        => LET f == funcs'[Len(funcs')]
           IN  /\ installers' = installers
               /\ approvals' = approvals
               /\ f.responses = 1 /\ f.pc = "done" /\ ~f.response.ok
               /\ f.response.error =
                    IF f.profile \in {"P_otr", "Guest"}
                      THEN kIncognitoError
                    ELSE IF f.id \notin {"x", "y"}
                      THEN kInvalidIdError
                    ELSE NoPreviousBeginInstallResponse(f.id).error]_vars

\* C1 witness: a completeInstall in the regular profile started an installer
\* from the approval of an accepted beginInstallWithManifest3, which left
\* the list.
C1_Witness ==
  /\ Len(installers) = 1 /\ approvals = <<>>
  /\ \E i \in 1..Len(funcs) :
       /\ funcs[i].kind = "complete" /\ funcs[i].pc = "installing"
       /\ installers[1].delegate = i
       /\ installers[1].approval.extension_id = funcs[i].id

\* C2: every run of beginInstallWithManifest3 sends exactly one response:
\* none while the helper or the prompt is pending, one once the flow has
\* ended, never two.
C2_ExactlyOneResponse ==
  \A i \in 1..Len(funcs) :
    funcs[i].kind = "begin" =>
      /\ funcs[i].responses <= 1
      /\ (funcs[i].pc = "done" <=> funcs[i].responses = 1)
      /\ (funcs[i].pc = "done" => funcs[i].refs = 0)

\* C2 witness: one run ended through OnWebstoreParseSuccess delegating to
\* OnWebstoreParseFailure, another through OnInstallPromptDone.
C2_Witness ==
  /\ \E i \in 1..Len(funcs) :
       /\ funcs[i].kind = "begin" /\ funcs[i].pc = "done"
       /\ funcs[i].response.error = kInvalidManifestError
  /\ \E i \in 1..Len(funcs) :
       /\ funcs[i].kind = "begin" /\ funcs[i].pc = "done"
       /\ funcs[i].prompt # "NONE"

\* This step sends the response of the begin function at index i.
BeginResponds(i) ==
  /\ i \in 1..Len(funcs')
  /\ funcs'[i].kind = "begin"
  /\ funcs'[i].responses > 0
  /\ (i <= Len(funcs) => funcs[i].responses = 0)

\* C3: beginInstallWithManifest3 adds an approval to the pending-approvals
\* list if and only if the prompt result is ACCEPTED, which is the only case
\* in which it responds with success; on every error response the list is
\* unchanged.
C3_ApprovalIffAccepted ==
  [][/\ \A i \in 1..Len(funcs') :
          BeginResponds(i) =>
            IF funcs'[i].prompt = "ACCEPTED"
              THEN /\ funcs'[i].response.ok
                   /\ approvals' = Append(approvals,
                        [extension_id |-> funcs'[i].id,
                         profile |-> funcs'[i].profile, req |-> i])
              ELSE /\ ~funcs'[i].response.ok
                   /\ funcs'[i].response.error # ""
                   /\ approvals' = approvals
     /\ Len(approvals') > Len(approvals) =>
          \E i \in 1..Len(funcs') :
            BeginResponds(i) /\ funcs'[i].prompt = "ACCEPTED"]_vars

\* C3 witness: one run was accepted and its approval is pending, another run
\* was cancelled by the user.
C3_Witness ==
  /\ \E i \in 1..Len(funcs) :
       /\ funcs[i].kind = "begin" /\ funcs[i].prompt = "ACCEPTED"
       /\ \E k \in 1..Len(approvals) : approvals[k].req = i
  /\ \E i \in 1..Len(funcs) :
       /\ funcs[i].kind = "begin" /\ funcs[i].prompt = "USER_CANCELED"
       /\ funcs[i].response.error = kUserCancelledError

\* C4 as stated: once a webstorePrivate function has sent its response, the
\* pending-approvals list holds no approval created during that request.
C4_AsStated ==
  \A i \in 1..Len(funcs) :
    funcs[i].responses > 0 =>
      \A k \in 1..Len(approvals) : approvals[k].req # i

\* C4 amended: an approval outlives the request that created it exactly when
\* that request is a beginInstallWithManifest3 that responded with success;
\* it then stays in the list until a completeInstall or PopApprovalForTesting
\* for the same id and the same profile (IsSameProfile) removes it.  A
\* function that responded with an error leaves no approval it created.
C4_ApprovalOutlivesAcceptedRequest ==
  [][/\ \A k \in 1..Len(approvals') :
          LET a == approvals'[k]
          IN  /\ a.req \in 1..Len(funcs')
              /\ funcs'[a.req].kind = "begin"
              /\ funcs'[a.req].responses = 1
              /\ funcs'[a.req].response.ok
              /\ funcs'[a.req].id = a.extension_id
              /\ funcs'[a.req].profile = a.profile
              /\ \A m \in 1..Len(approvals') :
                   approvals'[m].req = a.req => m = k
     /\ \A k \in 1..Len(approvals) :
          (\A m \in 1..Len(approvals') : approvals'[m] # approvals[k]) =>
            \/ /\ CompleteInstallStep
               /\ funcs'[Len(funcs')].id = approvals[k].extension_id
               /\ GetOriginalProfile(funcs'[Len(funcs')].profile) =
                    GetOriginalProfile(approvals[k].profile)
               /\ Len(installers') = Len(installers) + 1
               /\ installers'[Len(installers')].approval = approvals[k]
            \/ /\ funcs' = funcs /\ installers' = installers
               /\ Len(approvals') = Len(approvals) - 1]_vars

\* C4 witness: a beginInstallWithManifest3 has responded and its approval is
\* still pending while a later function has responded too.
C4_Witness ==
  \E i \in 1..Len(funcs), j \in 1..Len(funcs) :
    /\ i < j
    /\ funcs[i].responses = 1 /\ funcs[j].responses = 1
    /\ \E k \in 1..Len(approvals) : approvals[k].req = i

----------------------------------------------------------------------------
(* DetermineInitialSize : properties *)

\* The pair (props[wkey], props[hkey]) when both are present and >= 0, as a
\* one-element sequence; <<>> otherwise.
ValidPair(props, wkey, hkey) ==
  IF /\ wkey \in DOMAIN props /\ hkey \in DOMAIN props
     /\ props[wkey].v >= 0 /\ props[hkey].v >= 0
    THEN <<[width |-> props[wkey].v, height |-> props[hkey].v]>>
    ELSE <<>>

OptionalProperties(options) ==
  IF options.video_constraints[1].optional = <<>>
    THEN EmptyDictionary
    ELSE options.video_constraints[1].optional[1]

HasZeroDimension(size) == size.width = 0 \/ size.height = 0

Larger(a, b) == IF a < b THEN b ELSE a

\* The reference of C7.
ReferenceSize(options) ==
  IF options.video_constraints = <<>> THEN [width |-> 1280, height |-> 720]
  ELSE
    LET mand   == options.video_constraints[1].mandatory
        opt    == OptionalProperties(options)
        mmax   == ValidPair(mand, "maxWidth", "maxHeight")
        mmin   == ValidPair(mand, "minWidth", "minHeight")
        omax   == ValidPair(opt, "maxWidth", "maxHeight")
        omin   == ValidPair(opt, "minWidth", "minHeight")
        min    == IF mmin # <<>> THEN mmin[1] ELSE [width |-> 0, height |-> 0]
        min2   == IF HasZeroDimension(min) /\ omin # <<>> THEN omin[1] ELSE min
    IN  IF mmax # <<>> THEN mmax[1]
        ELSE IF omax # <<>>
          THEN IF HasZeroDimension(min)
                 THEN omax[1]
                 ELSE [width |-> Larger(omax[1].width, min.width),
                       height |-> Larger(omax[1].height, min.height)]
        ELSE [width |-> Larger(1280, min2.width),
              height |-> Larger(720, min2.height)]

\* Neither the mandatory nor the optional properties provide a maximum size.
NoMaximumProvided(options) ==
  options.video_constraints # <<>> =>
    /\ ValidPair(options.video_constraints[1].mandatory,
                 "maxWidth", "maxHeight") = <<>>
    /\ ValidPair(OptionalProperties(options), "maxWidth", "maxHeight") = <<>>

WithoutOptional(options) ==
  [video_constraints |->
     <<[options.video_constraints[1] EXCEPT !.optional = <<>>]>>]

\* The options without the optional minWidth / minHeight.
WithoutOptionalMin(options) ==
  IF options.video_constraints[1].optional = <<>> THEN options
  ELSE
    LET opt == options.video_constraints[1].optional[1]
    IN  [video_constraints |->
           <<[options.video_constraints[1] EXCEPT !.optional =
                <<[k \in DOMAIN opt \ {"minWidth", "minHeight"} |-> opt[k]]>>]>>]

----------------------------------------------------------------------------
(* chrome.tabCapture : properties *)

\* One of the four grants named for capture holds for the call c.
CaptureGranted(c) ==
  \/ c.has_permission
  \/ switch_value = c.extension_id
  \/ \E n \in 1..Len(kChromecastExtensionIds) :
       kChromecastExtensionIds[n] = c.extension_id
  \/ \E n \in 1..Len(kMediaRouterExtensionIds) :
       kMediaRouterExtensionIds[n] = c.extension_id

\* The call c found a browser with an active tab.
ActiveTabFound(c) ==
  c.target_browser # <<>> /\ c.target_browser[1].active_web_contents # <<>>

\* C5 as stated: capture adds a request and succeeds only under one of the
\* four grants, and without any of them it fails with kGrantError and leaves
\* the registry unchanged.  (It does not hold: without a browser or an active
\* tab the error is kFindingTabError.)
C5_AsStated ==
  [][call'.function = "capture" =>
       /\ (call'.ok \/ registry' # registry) => CaptureGranted(call')
       /\ ~CaptureGranted(call') =>
            (~call'.ok /\ call'.error = kGrantError /\ registry' = registry)]_vars

\* C5: capture adds a request to the registry and succeeds only under one of
\* the four grants (permission on the active tab, the switch value, the
\* Chromecast list, the Media Router list); without any of them it fails with
\* kGrantError when an active tab was found and with kFindingTabError when no
\* browser or active tab was found; every failure leaves the registry
\* unchanged and every success adds the request for the active tab.
C5_CaptureNeedsGrant ==
  [][call'.function = "capture" =>
       /\ (call'.ok \/ registry' # registry) => CaptureGranted(call')
       /\ (~CaptureGranted(call') /\ ActiveTabFound(call')) =>
            (~call'.ok /\ call'.error = kGrantError)
       /\ (~CaptureGranted(call') /\ ~ActiveTabFound(call')) =>
            (~call'.ok /\ call'.error = kFindingTabError)
       /\ ~call'.ok => registry' = registry
       /\ call'.ok =>
            registry' = registry \cup
              {[target_contents |-> call'.target_browser[1].active_web_contents[1],
                extension_id |-> call'.extension_id,
                is_offscreen |-> FALSE]}]_vars

\* C5 witness: a capture without any grant failed with kGrantError while the
\* registry held a request.
C5_Witness ==
  /\ call.function = "capture"
  /\ ~CaptureGranted(call)
  /\ call.error = kGrantError
  /\ registry # {}

\* The extension of the call c is whitelisted for the off-screen tab API.
OffscreenWhitelisted(c) ==
  \/ switch_value = c.extension_id
  \/ \E n \in 1..Len(kChromecastExtensionIds) :
       kChromecastExtensionIds[n] = c.extension_id
  \/ \E n \in 1..Len(kMediaRouterExtensionIds) :
       kMediaRouterExtensionIds[n] = c.extension_id

\* The options of the call c request audio or video.
RequestsAudioOrVideo(c) ==
  \/ c.options.audio = <<TRUE>>
  \/ c.options.video = <<TRUE>>

\* C6: captureOffscreenTab opens an off-screen tab only when the extension is
\* whitelisted, the start URL is valid with scheme http, https or data, and
\* the options request audio or video; a non-whitelisted extension always gets
\* kNotWhitelistedForOffscreenTabApi and neither opens a tab nor adds a
\* registry request.
C6_OffscreenTabOnlyWhenAllowed ==
  [][call'.function = "captureOffscreenTab" =>
       /\ (call'.opened # <<>> \/ offscreen_tabs' # offscreen_tabs) =>
            /\ OffscreenWhitelisted(call')
            /\ call'.start_url.valid
            /\ call'.start_url.scheme \in {"http", "https", "data"}
            /\ RequestsAudioOrVideo(call')
       /\ ~OffscreenWhitelisted(call') =>
            /\ ~call'.ok
            /\ call'.error = kNotWhitelistedForOffscreenTabApi
            /\ call'.opened = <<>>
            /\ offscreen_tabs' = offscreen_tabs
            /\ registry' = registry]_vars

\* C6 witness: a whitelisted extension opened an off-screen tab on a data URL
\* and a request for it is in the registry.
C6_Witness ==
  /\ call.function = "captureOffscreenTab"
  /\ call.ok
  /\ call.opened # <<>>
  /\ call.opened[1].start_url.scheme = "data"
  /\ \E r \in registry :
       r.is_offscreen /\ r.extension_id = call.extension_id

\* The options of the call c have the video flag set to true.
VideoRequested(c) == c.options.video = <<TRUE>>

\* The mandatory properties of the video constraints in the result of c, or
\* <<>> when the result has no video constraints.
ResultVideoMandatory(c) ==
  IF "videoConstraints" \in DOMAIN c.result[1]
    THEN <<c.result[1]["videoConstraints"].v["mandatory"].v>>
    ELSE <<>>

\* The mandatory properties of the video constraints supplied to c, or <<>>.
SuppliedVideoMandatory(c) ==
  IF c.options.video_constraints = <<>>
    THEN <<>>
    ELSE <<c.options.video_constraints[1].mandatory>>

\* C9 as stated: after a successful call the result never has the key
\* enableAutoThrottling in the mandatory properties of the video constraints.
\* (It does not hold: when video is not requested, supplied video constraints
\* are handed on with the key.)
C9_AsStated ==
  (call.ok /\ ResultVideoMandatory(call) # <<>>) =>
    kEnableAutoThrottlingKey \notin DOMAIN ResultVideoMandatory(call)[1]

\* C9: after a successful capture or captureOffscreenTab, when the video flag
\* is true the result has video constraints whose mandatory properties do not
\* contain enableAutoThrottling (and name the tab as source); when the video
\* flag is absent or false the supplied video constraints are handed on
\* unchanged, the key included.
C9_AutoThrottlingKeyRemovedForVideo ==
  call.ok =>
    /\ VideoRequested(call) =>
         /\ ResultVideoMandatory(call) # <<>>
         /\ kEnableAutoThrottlingKey \notin DOMAIN ResultVideoMandatory(call)[1]
         /\ kMediaStreamSource \in DOMAIN ResultVideoMandatory(call)[1]
    /\ ~VideoRequested(call) =>
         ResultVideoMandatory(call) = SuppliedVideoMandatory(call)

\* C9 witness: a successful call with the video flag true whose supplied
\* video constraints had the key.
C9_Witness ==
  /\ call.ok
  /\ VideoRequested(call)
  /\ SuppliedVideoMandatory(call) # <<>>
  /\ kEnableAutoThrottlingKey \in DOMAIN SuppliedVideoMandatory(call)[1]
  /\ ResultVideoMandatory(call) # <<>>


----------------------------------------------------------------------------
(* signed-in devices : properties *)

\* C10: after CreateMappingForUnmappedDevices on a mapping with string values
\* only, every device has a non-empty public id under which the mapping holds
\* the device's GUID, and two devices with different GUIDs have different
\* public ids.
C10_EveryDeviceMapped ==
  mapping_calls > 0 =>
    /\ \A i \in 1..Len(devices) :
         /\ devices[i].public_id # <<>>
         /\ devices[i].public_id \in DOMAIN dictionary
         /\ dictionary[devices[i].public_id] = StringValue(devices[i].guid)
         /\ GetGUIDFromPublicId(dictionary, devices[i].public_id)
              = devices[i].guid
    /\ \A i, j \in 1..Len(devices) :
         devices[i].guid # devices[j].guid =>
           devices[i].public_id # devices[j].public_id

\* C10 witness: after a call, two devices with different GUIDs, one of them
\* under a public id of two digits that the search for an unused id reached.
C10_Witness ==
  /\ mapping_calls > 0
  /\ \E i, j \in 1..Len(devices) :
       /\ devices[i].guid # devices[j].guid
       /\ Len(devices[j].public_id) = 2

\* The public ids under which the mapping m holds the GUID guid.
PublicIdsOf(m, guid) ==
  {k \in DOMAIN m : m[k] = [t |-> "string", v |-> guid]}

\* C11: a call of CreateMappingForUnmappedDevices neither removes nor changes
\* an entry that was in the mapping; a device whose GUID was mapped gets a
\* public id under which the mapping already held its GUID, and every new
\* entry is the public id of a device whose GUID was not mapped; a second
\* call with the same device list leaves the mapping and every device's
\* public id unchanged.
C11_StableAndIdempotent ==
  [][mapping_calls' = mapping_calls + 1 =>
       /\ \A k \in DOMAIN dictionary :
            k \in DOMAIN dictionary' /\ dictionary'[k] = dictionary[k]
       /\ Len(devices') = Len(devices)
       /\ \A i \in 1..Len(devices) :
            /\ devices'[i].guid = devices[i].guid
            /\ PublicIdsOf(dictionary, devices[i].guid) # {} =>
                 devices'[i].public_id
                   \in PublicIdsOf(dictionary, devices[i].guid)
       /\ \A k \in DOMAIN dictionary' \ DOMAIN dictionary :
            \E i \in 1..Len(devices) :
              /\ PublicIdsOf(dictionary, devices[i].guid) = {}
              /\ devices'[i].public_id = k
              /\ dictionary'[k] = [t |-> "string", v |-> devices[i].guid]
       /\ mapping_calls >= 1 =>
            (dictionary' = dictionary /\ devices' = devices)]_vars

\* C11 witness: two calls were made on a list with a device whose GUID was
\* not mapped at first and a device whose GUID the mapping holds under two
\* public ids.
C11_Witness ==
  /\ mapping_calls = 2
  /\ \E i, j \in 1..Len(devices) :
       /\ devices[i].guid \notin MappedGuids
       /\ devices[j].guid \in MappedGuids
       /\ \E k \in PublicIdsOf(dictionary, devices[j].guid) :
            k # devices[j].public_id

----------------------------------------------------------------------------
(* PlatformNotificationServiceImpl : properties *)

\* The step handled a close: the trace grew by one close event.
CloseHandled ==
  /\ Len(trace') = Len(trace) + 1
  /\ trace'[Len(trace')].event = "close"

\* A close step runs on the UI thread, deletes nothing itself and posts
\* exactly one task, the deletion for this close, to the IO thread.
ClosePostsOneIOTask ==
  LET closed == trace'[Len(trace')]
      queued == task_queues'["IO"]
  IN  /\ closed.thread = "UI"
      /\ notification_data' = notification_data
      /\ task_queues'["UI"] = task_queues["UI"]
      /\ Len(queued) = Len(task_queues["IO"]) + 1
      /\ SubSeq(queued, 1, Len(queued) - 1) = task_queues["IO"]
      /\ queued[Len(queued)].run = "DeleteNotificationData"
      /\ queued[Len(queued)].close = closed.close
      /\ queued[Len(queued)].id = closed.id

\* In the trace tr every deletion and every result callback comes after the
\* close it belongs to and ran on another thread than that close, each close
\* has at most one deletion and one result callback, and the callback comes
\* after the deletion.
DeletionAfterCloseOnOtherThread(tr) ==
  \A p \in 1..Len(tr) :
    tr[p].event \in {"delete", "deleted"} =>
      /\ \E q \in 1..(p - 1) :
           /\ tr[q].event = "close"
           /\ tr[q].close = tr[p].close
           /\ tr[q].id = tr[p].id
           /\ tr[q].thread = "UI"
           /\ tr[q].thread # tr[p].thread
      /\ \A q \in 1..Len(tr) :
           (tr[q].event = tr[p].event /\ tr[q].close = tr[p].close) => q = p
      /\ tr[p].event = "deleted" =>
           \E q \in 1..(p - 1) :
             tr[q].event = "delete" /\ tr[q].close = tr[p].close

====
